---------------------------- MODULE Spec2Model ----------------------------
(***************************************************************************)
(* validate-light: the closure/builder generation (src/src/index.js), with *)
(* the prototype generation (src/unnamed/part_000) and the build v0.1.1    *)
(* (src/build/index.js) where they differ from it.                         *)
(*                                                                         *)
(* A form is a list of fields in DOM order.  Strings that the library      *)
(* inspects character by character (field values, data-validate-*          *)
(* attribute values) are sequences of one-character strings; messages,     *)
(* class names and rule names are opaque strings.                          *)
(***************************************************************************)
EXTENDS Integers, Sequences, FiniteSets, TLC

VARIABLES
  dom,          \* the form's input/textarea/select nodes, in DOM order
  formAttrs,    \* the form tag's data-msg-* attributes
  params,       \* builderParams
  messages,     \* form.messages
  customChecks, \* form.customChecks, in for-in order
  last,         \* what the most recent operation did (observation only)
  calls,        \* validate() calls made so far
  generation,   \* the version of the library that built the controller
  nodeList      \* v0.1.1: the fields the builder read from the form

vars == <<dom, formAttrs, params, messages, customChecks, last, calls,
          generation, nodeList>>

-----------------------------------------------------------------------------
(* Bounds of the model *)

\* Most fields a form holds.
MaxFields == 2

\* Most validate() calls in one run; nothing happens to the form after the last.
MaxCalls == 2

-----------------------------------------------------------------------------
(* Characters and the JavaScript values null / undefined *)

Lower == {"a","b","c","d","e","f","g","h","i","j","k","l","m",
          "n","o","p","q","r","s","t","u","v","w","x","y","z"}

Upper == {"A","B","C","D","E","F","G","H","I","J","K","L","M",
          "N","O","P","Q","R","S","T","U","V","W","X","Y","Z"}

Digit == {"0","1","2","3","4","5","6","7","8","9"}

\* What String.prototype.trim strips and \s matches (the part of it used here).
WhiteSpace == {" ", "\t", "\n"}

\* null, as the value of an absent attribute (never a sequence of characters).
Null == <<"<null>">>

\* null / undefined where a message string is expected.
NullMsg == "<null>"

Undefined == "<undefined>"

\* JavaScript falsiness of a message: !form.messages[k]
Falsy(m) == m \in {NullMsg, Undefined, ""}

-----------------------------------------------------------------------------
(* String helpers *)

RECURSIVE TrimStart(_)
TrimStart(s) ==
  IF s = <<>> THEN s
  ELSE IF Head(s) \in WhiteSpace THEN TrimStart(Tail(s)) ELSE s

RECURSIVE TrimEnd(_)
TrimEnd(s) ==
  IF s = <<>> THEN s
  ELSE IF s[Len(s)] \in WhiteSpace THEN TrimEnd(SubSeq(s, 1, Len(s) - 1)) ELSE s

\* String.prototype.trim
trim(s) == TrimEnd(TrimStart(s))

\* Index of the first c in s at or after position from, 0 when there is none.
IndexFrom(s, c, from) ==
  IF \E i \in from..Len(s) : s[i] = c
  THEN CHOOSE i \in from..Len(s) : s[i] = c /\ \A j \in from..(i - 1) : s[j] # c
  ELSE 0

AllIn(s, class) == \A i \in 1..Len(s) : s[i] \in class

\* String.prototype.split(','): the list of tokens between commas.
RECURSIVE split(_)
split(s) ==
  LET c == IndexFrom(s, ",", 1)
  IN IF c = 0 THEN <<s>>
     ELSE <<SubSeq(s, 1, c - 1)>> \o split(SubSeq(s, c + 1, Len(s)))

-----------------------------------------------------------------------------
(* Regular expressions *)

EmailRe == "email"

TelRe == "tel"

\* A custom rule's expression: /^[a-z0-9]+$/
AlnumRe == "alnum"

\* /^([a-zA-Z0-9._-]+[a-zA-Z0-9]@[a-zA-Z0-9-]+\.[a-zA-Z.]{2,5})$/
\* No class of the expression holds "@", and the domain class holds no ".":
\* the local part ends at the first "@", the domain at the first "." after it.
MatchEmail(s) ==
  LET at    == IndexFrom(s, "@", 1)
      dot   == IF at = 0 THEN 0 ELSE IndexFrom(s, ".", at + 1)
      local == SubSeq(s, 1, at - 1)
      dmn   == SubSeq(s, at + 1, dot - 1)
      tld   == SubSeq(s, dot + 1, Len(s))
  IN /\ at > 0
     /\ dot > 0
     /\ Len(local) >= 2
     /\ AllIn(local, Lower \cup Upper \cup Digit \cup {".", "_", "-"})
     /\ local[Len(local)] \in Lower \cup Upper \cup Digit
     /\ Len(dmn) >= 1
     /\ AllIn(dmn, Lower \cup Upper \cup Digit \cup {"-"})
     /\ Len(tld) >= 2
     /\ Len(tld) <= 5
     /\ AllIn(tld, Lower \cup Upper \cup {"."})

\* /^\+?[0-9\.#\-\(\)\*\/\s]*$/
MatchTel(s) ==
  LET rest == IF s # <<>> /\ Head(s) = "+" THEN Tail(s) ELSE s
  IN AllIn(rest, Digit \cup {".", "#", "-", "(", ")", "*", "/"} \cup WhiteSpace)

\* /^[a-z0-9]+$/
MatchAlnum(s) == Len(s) >= 1 /\ AllIn(s, Lower \cup Digit)

\* RegExp.prototype.test
test(r, s) ==
  CASE r = EmailRe -> MatchEmail(s)
    [] r = TelRe   -> MatchTel(s)
    [] r = AlnumRe -> MatchAlnum(s)

-----------------------------------------------------------------------------
(* form.fieldChecks *)

\* Variant: the value is not trimmed.
emptyNoTrim(value) ==
  [hasError |-> FALSE, isEmpty |-> (value = <<>>),
   value |-> IF value = <<>> THEN Null ELSE value]

empty(value) ==
  LET v == trim(value)
  IN [hasError |-> FALSE, isEmpty |-> (v = <<>>), value |-> IF v = <<>> THEN Null ELSE v]

regExp(value, r) ==
  LET field == empty(value)
  IN IF field.value = Null
     THEN [field EXCEPT !.isEmpty = TRUE, !.hasError = FALSE]
     ELSE IF ~test(r, field.value)
          THEN [field EXCEPT !.hasError = TRUE]
          ELSE field

email(value) == regExp(value, EmailRe)

tel(value) == regExp(value, TelRe)

-----------------------------------------------------------------------------
(* Custom checks *)

\* Rule names handed to setFieldCheck and read from data-validate-<name>.
RuleNames == {"foo", "bar", ""}

BuiltinNames == {"required", "email", "tel"}

\* A predicate handed to setFieldCheck: (value, field, config) => boolean
\*   reject:   () => false
\*   accept:   () => true
\*   inConfig: (value, field, config) => config.indexOf(value) >= 0
callPredicate(fn, value, field, config) ==
  CASE fn = "reject"   -> FALSE
    [] fn = "accept"   -> TRUE
    [] fn = "inConfig" -> \E t \in 1..Len(config) : config[t] = value

\* form.customChecks[k](value, field, config), as setFieldCheck wrapped it.
callCheck(check, value, field, config) ==
  IF check.kind = "regexp"
  THEN regExp(value, check.body)
  ELSE [empty(value) EXCEPT !.hasError = ~callPredicate(check.body, value, field, config)]

-----------------------------------------------------------------------------
(* UI: form groups and error blocks *)

\* No error block in the form group yet.
NoBlock == [exists |-> FALSE, hidden |-> FALSE, msg |-> NullMsg, timer |-> FALSE]

\* closest(field, formBlockSelector): TRUE when an ancestor of the field
\* matches the selector (the field's form group), FALSE for null.
closest(field, selector) == field.group

\* Variant: a new error block is appended without the message.
showErrorBlank(field, msg) ==
  IF field.block.exists
  THEN [field EXCEPT !.block.hidden = FALSE, !.block.msg = msg]
  ELSE [field EXCEPT !.block =
          [exists |-> TRUE, hidden |-> TRUE, msg |-> NullMsg, timer |-> TRUE]]

\* showError on a form group that exists (where # null).
showError(field, msg) ==
  IF field.block.exists
  THEN [field EXCEPT !.block.hidden = FALSE, !.block.msg = msg]
  ELSE [field EXCEPT !.block =
          [exists |-> TRUE, hidden |-> TRUE, msg |-> msg, timer |-> TRUE]]

\* hideError on a form group that exists (errorContainer # null).
hideError(field) ==
  IF field.block.exists
  THEN [field EXCEPT !.block.hidden = TRUE]
  ELSE field

-----------------------------------------------------------------------------
(* validate *)

\* Variant: the first entry applies to required checkboxes as well.
builtinConfigAnyType(field, fields, msgs) ==
  << [checkCondition |-> field.required,
      validationType |-> empty(field.value).isEmpty,
      msg            |-> msgs["required"]],
     [checkCondition |-> field.type = "email",
      validationType |-> email(field.value).hasError,
      msg            |-> msgs["email"]],
     [checkCondition |-> field.type = "tel",
      validationType |-> tel(field.value).hasError,
      msg            |-> msgs["tel"]],
     [checkCondition |-> field.type = "checkbox" /\ field.required,
      validationType |-> ~field.checked,
      msg            |-> msgs["required"]],
     [checkCondition |-> field.type = "radio" /\ field.required,
      validationType |-> ~\E j \in 1..Len(fields) :
                            /\ fields[j].type \in {"checkbox", "radio"}
                            /\ fields[j].name = field.name
                            /\ fields[j].checked,
      msg            |-> msgs["required"]] >>

\* The five built-in entries of validationConfig, in the order of the source.
builtinConfig(field, fields, msgs) ==
  << [checkCondition |-> field.type # "checkbox" /\ field.required,
      validationType |-> empty(field.value).isEmpty,
      msg            |-> msgs["required"]],
     [checkCondition |-> field.type = "email",
      validationType |-> email(field.value).hasError,
      msg            |-> msgs["email"]],
     [checkCondition |-> field.type = "tel",
      validationType |-> tel(field.value).hasError,
      msg            |-> msgs["tel"]],
     [checkCondition |-> field.type = "checkbox" /\ field.required,
      validationType |-> ~field.checked,
      msg            |-> msgs["required"]],
     [checkCondition |-> field.type = "radio" /\ field.required,
      validationType |-> ~\E j \in 1..Len(fields) :
                            /\ fields[j].type \in {"checkbox", "radio"}
                            /\ fields[j].name = field.name
                            /\ fields[j].checked,
      msg            |-> msgs["required"]] >>

\* Variant: the custom check's error counts on an empty value too.
customEntryOnEmpty(check, field, dataName, msg) ==
  LET dataConfig == IF dataName # Null THEN split(dataName) ELSE <<>>
  IN [checkCondition |-> dataName # Null,
      validationType |->
        IF dataName = Null THEN FALSE
        ELSE callCheck(check, field.value, field, dataConfig).hasError,
      msg |-> msg]

\* The entry pushed for custom rule number k of the registry.
customEntry(check, field, dataName, msg) ==
  LET dataConfig == IF dataName # Null THEN split(dataName) ELSE <<>>
  IN [checkCondition |-> dataName # Null,
      validationType |->
        IF dataName = Null THEN FALSE
        ELSE IF callCheck(check, field.value, field, dataConfig).isEmpty THEN FALSE
        ELSE callCheck(check, field.value, field, dataConfig).hasError,
      msg |-> msg]

\* The for-in loop over form.customChecks, from entry k on.  It writes
\* form.messages[k] and throws when the message is missing.
RECURSIVE customLoop(_, _, _, _, _, _)
customLoop(k, field, checks, attrs, msgs, cfg) ==
  IF k > Len(checks)
  THEN [messages |-> msgs, cfg |-> cfg, threw |-> FALSE, invoked |-> {}]
  ELSE LET name     == checks[k].name
           dataName == field.attrs[name]
           msgs1    == [msgs EXCEPT ![name] = attrs[name]]
       IN IF Falsy(msgs1[name])
          THEN [messages |-> msgs1, cfg |-> cfg, threw |-> TRUE, invoked |-> {}]
          ELSE LET rest == customLoop(k + 1, field, checks, attrs, msgs1,
                              Append(cfg, customEntry(checks[k].check, field, dataName, msgs1[name])))
               IN [rest EXCEPT !.invoked =
                     @ \cup (IF dataName # Null THEN {name} ELSE {})]

\* validationConfig.every(...): the walk over the candidate rules from r on.
\* closest() returns null for a field outside any form group, and showError /
\* hideError then throw a TypeError on where.querySelector: "failThrow" after
\* the failure branch marked the field, "passThrow" after the pass branch did.
RECURSIVE ruleWalk(_, _, _, _)
ruleWalk(cfg, r, field, p) ==
  IF r > Len(cfg)
  THEN [field |-> field, result |-> "pass", msg |-> NullMsg]
  ELSE IF ~cfg[r].checkCondition
       THEN ruleWalk(cfg, r + 1, field, p)
       ELSE LET formGroup == closest(field, p.formBlockSelector)
            IN IF cfg[r].validationType
               THEN LET marked == [field EXCEPT !.classes =
                                     (@ \ {p.validClass}) \cup {p.invalidClass}]
                    IN IF ~formGroup
                       THEN [field |-> marked, result |-> "failThrow", msg |-> cfg[r].msg]
                       ELSE [field |-> showError(marked, cfg[r].msg),
                             result |-> "fail", msg |-> cfg[r].msg]
               ELSE LET marked == [field EXCEPT !.classes =
                                     IF field.value # <<>>
                                     THEN (@ \ {"is-invalid"}) \cup {"is-valid"}
                                     ELSE @ \ {"is-invalid", "is-valid"}]
                    IN IF ~formGroup
                       THEN [field |-> marked, result |-> "passThrow", msg |-> NullMsg]
                       ELSE ruleWalk(cfg, r + 1, hideError(marked), p)

\* A validate() call in progress.
startCall(fields, msgs) ==
  [dom |-> fields, form |-> fields, messages |-> msgs, outcome |-> "accept", failed |-> 0,
   crashed |-> 0, msg |-> NullMsg, events |-> {}, touched |-> {},
   invoked |-> {}, evaluated |-> 0]

\* The call once the custom loop ran for field i.
afterLoop(i, st, loop) ==
  [st EXCEPT !.messages = loop.messages, !.evaluated = i,
             !.invoked = @ \cup {<<i, n>> : n \in loop.invoked},
             !.outcome = IF loop.threw THEN "configError" ELSE @]

\* What the walk of a field's rules came to (kept with the field, for
\* observation only): it passed, it failed, or it threw on a passing rule.
verdictOf(result) ==
  CASE result = "pass"      -> "pass"
    [] result = "fail"      -> "fail"
    [] result = "failThrow" -> "fail"
    [] result = "passThrow" -> "throw"

\* The call once the rules of field i were walked.
afterWalk(i, st, cfg, walk) ==
  LET done == [st EXCEPT !.dom[i] = [walk.field EXCEPT !.verdict = verdictOf(walk.result)],
                         !.touched = @ \cup
                            (IF \E r \in 1..Len(cfg) : cfg[r].checkCondition
                             THEN {i} ELSE {})]
  IN CASE walk.result = "pass" -> done
       [] walk.result = "fail" ->
            [done EXCEPT !.outcome = "reject", !.failed = i,
                         !.msg = walk.msg, !.events = @ \cup {i}]
       [] walk.result = "failThrow" ->
            [done EXCEPT !.outcome = "typeError", !.failed = i,
                         !.crashed = i, !.msg = walk.msg]
       [] walk.result = "passThrow" ->
            [done EXCEPT !.outcome = "typeError", !.crashed = i]

\* Variant: the rules are walked although the custom loop threw.
walkFieldAnyway(i, st, loop, p) ==
  afterWalk(i, afterLoop(i, st, loop), loop.cfg,
            ruleWalk(loop.cfg, 1, st.dom[i], p))

\* The rule walk of field i, unless the custom loop threw.
walkField(i, st, loop, p) ==
  IF loop.threw
  THEN afterLoop(i, st, loop)
  ELSE afterWalk(i, afterLoop(i, st, loop), loop.cfg,
                 ruleWalk(loop.cfg, 1, st.dom[i], p))

\* The callback of [].every.call(form.fields, ...) on field i.
fieldCallback(i, st, checks, attrs, p) ==
  walkField(i, st,
            customLoop(1, st.dom[i], checks, attrs, st.messages,
                       builtinConfig(st.dom[i], st.form, st.messages)),
            p)

\* [].every.call(form.fields, ...): stops at the first callback that
\* returns false, or throws.
RECURSIVE every(_, _, _, _, _)
\* Variant: the fields after a failing one are walked as well.
everyNextAll(i, next, checks, attrs, p) ==
  IF next.outcome \in {"accept", "reject"}
  THEN every(i + 1, next, checks, attrs, p)
  ELSE next

everyNext(i, next, checks, attrs, p) ==
  IF next.outcome = "accept"
  THEN every(i + 1, next, checks, attrs, p)
  ELSE next

every(i, st, checks, attrs, p) ==
  IF i > Len(st.dom)
  THEN st
  ELSE everyNext(i, fieldCallback(i, st, checks, attrs, p), checks, attrs, p)

\* if (result) { form.submit(); }
submitIf(result) ==
  [result |-> result, submits |-> IF result.outcome = "accept" THEN 1 ELSE 0]

\* validate(): form.fields is read from the DOM, every field is walked, and
\* the form is submitted when every callback returned true.
validate(fields, checks, attrs, msgs, p) ==
  submitIf(every(1, startCall(fields, msgs), checks, attrs, p))

-----------------------------------------------------------------------------
(* setFieldCheck *)

\* Variant: only an undefined checker is refused.
setFieldCheckThrowsUndefined(name, check) ==
  \/ name.type # "string"
  \/ check.kind = "undefined"

\* typeof name !== 'string' || typeof check === 'undefined'
\* else: check instanceof RegExp, check instanceof Function, or neither.
setFieldCheckThrows(name, check) ==
  \/ name.type # "string"
  \/ check.kind = "undefined"
  \/ check.kind \notin {"regexp", "function"}

\* Variant: every registration adds an entry.
assignNew(checks, key, check) == Append(checks, [name |-> key, check |-> check])

\* form.customChecks[name] = ...: an existing key keeps its place in the
\* for-in order, a new key goes last.
assign(checks, key, check) ==
  IF \E k \in 1..Len(checks) : checks[k].name = key
  THEN [k \in 1..Len(checks) |->
          IF checks[k].name = key THEN [name |-> key, check |-> check] ELSE checks[k]]
  ELSE Append(checks, [name |-> key, check |-> check])

setFieldCheck(checks, name, check) ==
  IF setFieldCheckThrows(name, check)
  THEN [customChecks |-> checks, threw |-> TRUE]
  ELSE [customChecks |-> assign(checks, name.str, check), threw |-> FALSE]

-----------------------------------------------------------------------------
(* Inputs: field values, fields, forms, arguments *)

VEmpty == <<>>

VSpace == <<" ">>

\* "ab@c.de " : an email address once trimmed, not a telephone number
VMail == <<"a", "b", "@", "c", ".", "d", "e", " ">>

\* "12" : a telephone number, not an email address
VDigits == <<"1", "2">>

\* "on" : the value of a checkbox or radio button without a value attribute
VOn == <<"o", "n">>

Values == {VEmpty, VSpace, VMail, VDigits}

\* What the user types in the multi-field forms.
Typed == {VEmpty, VDigits}

NoAttrs == [n \in RuleNames |-> Null]

\* data-validate-foo=""
FooAttrs == [NoAttrs EXCEPT !["foo"] = <<>>]

\* data-validate-foo="" data-validate-bar="x,12"
FooBarAttrs == [FooAttrs EXCEPT !["bar"] = <<"x", ",", "1", "2">>]

Field(type, required, value, checked, name, attrs, group) ==
  [type |-> type, required |-> required, value |-> value, checked |-> checked,
   name |-> name, attrs |-> attrs, group |-> group,
   classes |-> {}, block |-> NoBlock, verdict |-> "none"]

\* Fields in a form group of their own, no custom rule attribute.
PlainFields ==
  {Field(t, r, v, FALSE, "txt", NoAttrs, TRUE) :
      t \in {"text", "email", "tel"}, r \in BOOLEAN, v \in Values}
  \cup {Field("checkbox", r, v, c, "agree", NoAttrs, TRUE) :
      r \in BOOLEAN, v \in {VEmpty, VOn}, c \in BOOLEAN}
  \cup {Field("radio", r, VOn, c, "choice", NoAttrs, TRUE) :
      r \in BOOLEAN, c \in BOOLEAN}

\* Fields that carry data-validate-* attributes.
CustomFields ==
  {Field(t, r, v, FALSE, "txt", a, TRUE) :
      t \in {"text", "email", "tel"}, r \in BOOLEAN, v \in Values,
      a \in {FooAttrs, FooBarAttrs}}
  \cup {Field("checkbox", TRUE, VOn, c, "agree", FooAttrs, TRUE) : c \in BOOLEAN}

\* Fields with no ancestor matching formBlockSelector.
LooseFields ==
  {Field(t, r, v, FALSE, "txt", NoAttrs, FALSE) :
      t \in {"text", "email"}, r \in BOOLEAN, v \in {VEmpty, VDigits}}
  \cup {Field("checkbox", TRUE, VOn, c, "agree", NoAttrs, FALSE) : c \in BOOLEAN}
  \cup {Field("text", r, VDigits, FALSE, "txt", FooAttrs, FALSE) : r \in BOOLEAN}

\* The fields of the one-field forms.
FieldPool == PlainFields \cup CustomFields \cup LooseFields

\* The fields of the multi-field forms.
SmallPool ==
  {Field("text", TRUE, VEmpty, FALSE, "txt", NoAttrs, TRUE),
   Field("email", FALSE, VDigits, FALSE, "txt", FooAttrs, TRUE),
   Field("text", TRUE, VDigits, FALSE, "txt", NoAttrs, FALSE),
   Field("radio", TRUE, VOn, FALSE, "choice", NoAttrs, TRUE)}

Forms == UNION {[1..n -> SmallPool] : n \in 1..MaxFields}

DefaultParams ==
  [validateOnSubmit |-> TRUE, formBlockSelector |-> ".form__group",
   validClass |-> "is-valid", invalidClass |-> "is-invalid"]

CustomParams ==
  [DefaultParams EXCEPT !.validClass = "ok", !.invalidClass = "ko"]

BuiltinAttrs ==
  [n \in BuiltinNames \cup RuleNames |->
     CASE n = "required" -> "Required"
       [] n = "email"    -> "Bad email"
       [] n = "tel"      -> "Bad tel"
       [] n = "bar"      -> "Bad bar"
       [] OTHER          -> NullMsg]

\* The form tag's attributes and the parameters handed to validateLight.
Environments ==
  {[attrs |-> [BuiltinAttrs EXCEPT !["foo"] = m], params |-> DefaultParams] :
      m \in {"Bad foo", NullMsg, ""}}
  \cup {[attrs |-> [BuiltinAttrs EXCEPT !["foo"] = "Bad foo"], params |-> CustomParams]}

AlnumCheck == [kind |-> "regexp", body |-> AlnumRe]

RejectCheck == [kind |-> "function", body |-> "reject"]

\* A value that is neither a RegExp nor a function.
Other(kind) == [kind |-> kind, body |-> ""]

StringName(s) == [type |-> "string", str |-> s]

\* A name argument that is not a string.
NotAString(type) == [type |-> type, str |-> ""]

NoArg == [name |-> NotAString("none"), check |-> Other("none")]

\* What the last operation did, for an operation that is not validate().
Idle(op, outcome, arg) ==
  [op |-> op, outcome |-> outcome, arg |-> arg, failed |-> 0, crashed |-> 0,
   msg |-> NullMsg, events |-> {}, touched |-> {}, invoked |-> {},
   evaluated |-> 0, submits |-> 0, eventType |-> NullMsg, seen |-> {}, gone |-> 0]

\* The generations of the library: the prototype version (part_000), the
\* closure version (src/index.js) and its later build (build/index.js).
Generations == {"v1.0.0", "v0.1.0", "v0.1.1"}

\* The type of the event dispatched on a failing field.
EventType(g) ==
  IF g = "v1.0.0" THEN "validate-light-error" ELSE "validate-light:error"

-----------------------------------------------------------------------------
(* The state machine *)

\* The builder of generation g on form f in environment e.  v0.1.1 reads
\* the fields of the form once, here.
builtBy(g, f, e) ==
  /\ generation = g
  /\ nodeList = IF g = "v0.1.1"
                THEN [j \in 1..Len(f) |-> [at |-> j, node |-> <<>>]]
                ELSE <<>>
  /\ dom = f
  /\ formAttrs = e.attrs
  /\ params = e.params
  /\ messages = [n \in BuiltinNames \cup RuleNames |->
                   IF n \in BuiltinNames THEN e.attrs[n] ELSE Undefined]
  /\ customChecks = <<>>
  /\ last = Idle("builder", "ok", NoArg)
  /\ calls = 0

\* builder(el, builderParams) on form f in environment e
built(f, e) == builtBy("v0.1.0", f, e)

\* The state after a validate() call that did r.
Returned(r) ==
  /\ calls < MaxCalls
  /\ calls' = calls + 1
  /\ dom' = r.result.dom
  /\ messages' = r.result.messages
  /\ last' = [op |-> "validate", outcome |-> r.result.outcome, arg |-> NoArg,
              failed |-> r.result.failed, crashed |-> r.result.crashed,
              msg |-> r.result.msg, events |-> r.result.events,
              touched |-> r.result.touched, invoked |-> r.result.invoked,
              evaluated |-> r.result.evaluated, submits |-> r.submits,
              eventType |-> IF r.result.events = {} THEN NullMsg
                            ELSE EventType(generation),
              seen |-> 1..r.result.evaluated, gone |-> 0]
  /\ UNCHANGED <<formAttrs, params, customChecks, generation, nodeList>>

Call == Returned(validate(dom, customChecks, formAttrs, messages, params))

\* form.validateLight.validate()
Validate == Call

\* The submit listener: e.preventDefault(); validate();
SubmitEvent ==
  /\ params.validateOnSubmit
  /\ Call

\* The state after a setFieldCheck(n, c) call that did r.
Registered(n, c, r) ==
  /\ calls < MaxCalls
  /\ customChecks' = r.customChecks
  /\ last' = Idle("setFieldCheck", IF r.threw THEN "throw" ELSE "ok",
                  [name |-> n, check |-> c])
  /\ UNCHANGED <<dom, formAttrs, params, messages, calls, generation, nodeList>>

\* form.validateLight.setFieldCheck(name, check)
SetFieldCheck(names, checks) ==
  \E n \in names, c \in checks :
    Registered(n, c, setFieldCheck(customChecks, n, c))

\* The user types into field i.
TypeValue ==
  \E i \in 1..Len(dom), v \in Typed :
    /\ dom[i].type \in {"text", "email", "tel"}
    /\ v # dom[i].value
    /\ dom' = [dom EXCEPT ![i].value = v]
    /\ calls < MaxCalls
    /\ last' = Idle("event", "ok", NoArg)
    /\ UNCHANGED <<formAttrs, params, messages, customChecks, calls,
                   generation, nodeList>>

\* The user clicks checkbox or radio button i: a checkbox toggles, a radio
\* button becomes the checked one of its name.
Click ==
  \E i \in 1..Len(dom) :
    /\ dom[i].type \in {"checkbox", "radio"}
    /\ dom[i].type = "radio" => ~dom[i].checked
    /\ dom' = [j \in 1..Len(dom) |->
                 IF j = i THEN [dom[j] EXCEPT !.checked = ~@]
                 ELSE IF /\ dom[i].type = "radio"
                         /\ dom[j].type = "radio"
                         /\ dom[j].name = dom[i].name
                      THEN [dom[j] EXCEPT !.checked = FALSE]
                      ELSE dom[j]]
    /\ calls < MaxCalls
    /\ last' = Idle("event", "ok", NoArg)
    /\ UNCHANGED <<formAttrs, params, messages, customChecks, calls,
                   generation, nodeList>>

\* The zero-delay timer of showError fires: the new block is un-hidden.
TimerFires ==
  \E i \in 1..Len(dom) :
    /\ dom[i].block.timer
    /\ dom' = [dom EXCEPT ![i].block.timer = FALSE, ![i].block.hidden = FALSE]
    /\ last' = Idle("event", "ok", NoArg)
    /\ UNCHANGED <<formAttrs, params, messages, customChecks, calls,
                   generation, nodeList>>

(* The other generations, and fields that come and go *)

\* v1.0.0 reads the data-msg-* attributes through form.dataset, where a
\* missing attribute reads undefined.  (It reads data-validate-<name> through
\* field.dataset under the name with its first letter in upper case and the
\* rest in lower case, which for a lower-case name without hyphens is the same
\* attribute.)
dataset(attrs) ==
  [n \in DOMAIN attrs |-> IF attrs[n] = NullMsg THEN Undefined ELSE attrs[n]]

\* v1.0.0: buildObj.validate
ValidateProto ==
  /\ generation = "v1.0.0"
  /\ Returned(validate(dom, customChecks, dataset(formAttrs), messages, params))

\* v0.1.0: validate
ValidateSrc ==
  /\ generation = "v0.1.0"
  /\ Call

\* v0.1.1: the node an entry of the builder's list stands for, which is in
\* the form at place entry.at, or was removed from it.
element(entry, form) == IF entry.at > 0 THEN form[entry.at] ELSE entry.node

elements(list, form) == [j \in 1..Len(list) |-> element(list[j], form)]

\* v0.1.1: a validate() call in progress: the fields walked are those of the
\* builder's list, the radio rule looks into the form.
startCallOn(list, form, msgs) == [startCall(list, msgs) EXCEPT !.form = form]

\* v0.1.1: validate()
validateCached(list, form, checks, attrs, msgs, p) ==
  submitIf(every(1, startCallOn(list, form, msgs), checks, attrs, p))

\* The place in the builder's list of field i of the form, 0 when the list
\* does not hold it.
listed(i) ==
  IF \E j \in 1..Len(nodeList) : nodeList[j].at = i
  THEN CHOOSE j \in 1..Len(nodeList) : nodeList[j].at = i
  ELSE 0

\* The state after a validate() call of v0.1.1 that did r.
ReturnedCached(r) ==
  /\ calls < MaxCalls
  /\ calls' = calls + 1
  /\ dom' = [i \in 1..Len(dom) |->
               IF listed(i) # 0 THEN r.result.dom[listed(i)] ELSE dom[i]]
  /\ nodeList' = [j \in 1..Len(nodeList) |->
                    IF nodeList[j].at > 0 THEN nodeList[j]
                    ELSE [at |-> 0, node |-> r.result.dom[j]]]
  /\ messages' = r.result.messages
  /\ last' = [op |-> "validate", outcome |-> r.result.outcome, arg |-> NoArg,
              failed |-> r.result.failed, crashed |-> r.result.crashed,
              msg |-> r.result.msg, events |-> r.result.events,
              touched |-> r.result.touched, invoked |-> r.result.invoked,
              evaluated |-> r.result.evaluated, submits |-> r.submits,
              eventType |-> IF r.result.events = {} THEN NullMsg
                            ELSE EventType(generation),
              seen |-> {nodeList[j].at : j \in 1..r.result.evaluated} \ {0},
              gone |-> Cardinality({j \in 1..r.result.evaluated :
                                      nodeList[j].at = 0})]
  /\ UNCHANGED <<formAttrs, params, customChecks, generation>>

\* v0.1.1: form.validateLight.validate()
ValidateCached ==
  /\ generation = "v0.1.1"
  /\ ReturnedCached(validateCached(elements(nodeList, dom), dom, customChecks,
                                   formAttrs, messages, params))

\* The fields a page adds to a form that is already built.
NewFields ==
  {Field("text", TRUE, v, FALSE, "txt", NoAttrs, TRUE) : v \in Typed}

\* The page appends a field, in a form group of its own, to the form.
AddField ==
  \E f \in NewFields :
    /\ Len(dom) < MaxFields
    /\ calls < MaxCalls
    /\ dom' = Append(dom, f)
    /\ last' = Idle("event", "ok", NoArg)
    /\ UNCHANGED <<formAttrs, params, messages, customChecks, calls,
                   generation, nodeList>>

\* The page removes the last field, with its form group, from the form.  A
\* list that held the node still holds it.
RemoveField ==
  /\ Len(dom) >= 1
  /\ calls < MaxCalls
  /\ dom' = SubSeq(dom, 1, Len(dom) - 1)
  /\ nodeList' = [j \in 1..Len(nodeList) |->
                    IF nodeList[j].at = Len(dom)
                    THEN [at |-> 0, node |-> dom[Len(dom)]]
                    ELSE nodeList[j]]
  /\ last' = Idle("event", "ok", NoArg)
  /\ UNCHANGED <<formAttrs, params, messages, customChecks, calls, generation>>

(* Forms of several fields, one custom rule *)

\* The forms of several fields are built with the default parameters.
DefaultEnvironments == {e \in Environments : e.params = DefaultParams}

Init == \E f \in Forms, e \in DefaultEnvironments : built(f, e)

RegisterFoo == SetFieldCheck({StringName("foo")}, {AlnumCheck, RejectCheck})

Next ==
  \/ Validate
  \/ SubmitEvent
  \/ RegisterFoo
  \/ TypeValue
  \/ Click
  \/ TimerFires

Spec == Init /\ [][Next]_vars

(* Forms of one field, every kind of field, two custom rules *)

InitField == \E f \in FieldPool, e \in Environments : built(<<f>>, e)

Register ==
  SetFieldCheck({StringName("foo"), StringName("bar")}, {AlnumCheck, RejectCheck})

NextField ==
  \/ Validate
  \/ SubmitEvent
  \/ Register
  \/ TimerFires

SpecField == InitField /\ [][NextField]_vars

(* The three generations on forms whose fields come and go *)

\* The fields of these forms.
GenPool ==
  {Field("text", TRUE, VEmpty, FALSE, "txt", NoAttrs, TRUE),
   Field("text", TRUE, VDigits, FALSE, "txt", NoAttrs, TRUE),
   Field("text", FALSE, VDigits, FALSE, "txt", FooAttrs, TRUE)}

GenForms == UNION {[1..n -> GenPool] : n \in 1..MaxFields}

InitGen ==
  \E g \in Generations, f \in GenForms, e \in DefaultEnvironments : builtBy(g, f, e)

NextGen ==
  \/ ValidateProto
  \/ ValidateSrc
  \/ ValidateCached
  \/ RegisterFoo
  \/ AddField
  \/ RemoveField

SpecGen == InitGen /\ [][NextGen]_vars

(* Registration with every kind of argument *)

RegForms ==
  {<<Field("text", FALSE, VDigits, FALSE, "txt", FooAttrs, TRUE)>>,
   <<Field("text", TRUE, VEmpty, FALSE, "txt", NoAttrs, TRUE)>>}

InitReg == \E f \in RegForms, e \in Environments : built(f, e)

NameArgs ==
  {StringName("foo"), StringName(""), NotAString("undefined"), NotAString("number")}

CheckArgs ==
  {AlnumCheck, RejectCheck,
   Other("undefined"), Other("null"), Other("string"), Other("number"), Other("object")}

RegisterAny == SetFieldCheck(NameArgs, CheckArgs)

NextReg ==
  \/ Validate
  \/ SubmitEvent
  \/ RegisterAny
  \/ TimerFires

SpecReg == InitReg /\ [][NextReg]_vars

-----------------------------------------------------------------------------
(* Properties: what the claims speak of *)

\* The step is a validate() call (direct, or from the submit listener).
IsCall == calls' = calls + 1

\* The last operation was a validate() call.
Called == last.op = "validate"

\* The last operation was a validate() call whose rule walk reached field i.
Walked(i) == Called /\ last.evaluated >= i /\ last.outcome # "configError"

\* Empty after trimming.
Blank(v) == \A i \in 1..Len(v) : v[i] \in WhiteSpace

\* The candidate rules of field f of form d, in the order the spec gives:
\* required, email, tel, required-checkbox, required-radio, then the custom
\* rules in registration order.
Candidates(f, d) ==
  builtinConfig(f, d, formAttrs)
    \o [k \in 1..Len(customChecks) |->
          customEntry(customChecks[k].check, f, f.attrs[customChecks[k].name],
                      formAttrs[customChecks[k].name])]

\* The applicable rules of the list cfg that fail.
FailingIn(cfg) ==
  {r \in 1..Len(cfg) : cfg[r].checkCondition /\ cfg[r].validationType}

\* The applicable rules of f that fail.
Failing(f, d) == FailingIn(Candidates(f, d))

\* The least member of the set of fields s, 0 when it is empty.
Least(s) == IF s = {} THEN 0 ELSE CHOOSE i \in s : \A j \in s : i <= j

\* The first field of form d that fails a rule, 0 when every field passes.
FirstFailing(d) == Least({i \in 1..Len(d) : Failing(d[i], d) # {}})

\* Custom rule k is registered.
HasRule(n) == \E k \in 1..Len(customChecks) : customChecks[k].name = n

\* Some registered rule that a field of the form carries has no message.
ActiveRuleWithoutMessage ==
  \E n \in RuleNames :
    HasRule(n) /\ Falsy(formAttrs[n]) /\ \E i \in 1..Len(dom) : dom[i].attrs[n] # Null

-----------------------------------------------------------------------------
(* C1 *)

\* C1: a validate() call submits the form exactly once when every field
\* passes every rule applicable to it, and never when a field fails a rule
\* or a configuration error is thrown.
C1_SubmissionGate ==
  Called =>
    /\ (last.outcome # "configError" /\ FirstFailing(dom) = 0) => last.submits = 1
    /\ (last.outcome = "configError" \/ FirstFailing(dom) # 0) => last.submits = 0

-----------------------------------------------------------------------------
(* C2 *)

\* C2: a walked field fails iff some applicable rule has its failure flag
\* set, and the message reported is that of the first such rule in the order
\* required, email, tel, required-checkbox, required-radio, custom rules.
C2_FirstFailingRuleWins ==
  Walked(1) =>
    /\ (last.failed = 1) <=> (Failing(dom[1], dom) # {})
    /\ Failing(dom[1], dom) # {} =>
         last.msg = Candidates(dom[1], dom)
                      [CHOOSE r \in Failing(dom[1], dom) :
                         \A q \in Failing(dom[1], dom) : r <= q].msg

-----------------------------------------------------------------------------
(* C3 *)

\* The step leaves the fields after field i alone, when i is a field.
UntouchedAfter(i) ==
  i # 0 =>
    /\ last'.evaluated <= i
    /\ \A j \in (i + 1)..Len(dom) :
         /\ dom'[j] = dom[j]
         /\ j \notin last'.events
         /\ j \notin last'.touched
         /\ \A n \in RuleNames : <<j, n>> \notin last'.invoked

\* C3: in a validate() call where field i is the first failing field, no
\* field after i is evaluated or touched: its classes and its error block
\* are what they were before the call, no event is dispatched on it and no
\* custom checker is invoked for it.
C3_ShortCircuit ==
  [][IsCall => UntouchedAfter(FirstFailing(dom))]_vars

\* A call rejected at field 1, where field 2 would fail too and still
\* carries what an earlier call gave it.
C3_Witness ==
  /\ Called
  /\ last.outcome = "reject"
  /\ last.failed = 1
  /\ Len(dom) >= 2
  /\ Failing(dom[2], dom) # {}
  /\ dom[2].classes # {}
  /\ dom[2].block.exists

-----------------------------------------------------------------------------
(* C4 *)

\* C4: a walked field without the required attribute whose value is blank
\* is not failed by any rule, whatever its type and its custom rules; in a
\* form group it passes and the form is accepted.
C4_BlankOptionalPasses ==
  (Walked(1) /\ ~dom[1].required /\ Blank(dom[1].value)) =>
    /\ last.failed = 0
    /\ last.outcome # "reject"
    /\ dom[1].group => (last.outcome = "accept" /\ last.submits = 1)

\* An optional email field holding only a space, with a custom predicate
\* that rejects every value active on it, was accepted.
C4_Witness ==
  /\ Walked(1)
  /\ dom[1].type = "email"
  /\ ~dom[1].required
  /\ dom[1].value = VSpace
  /\ dom[1].attrs["foo"] # Null
  /\ \E k \in 1..Len(customChecks) :
       customChecks[k] = [name |-> "foo", check |-> RejectCheck]
  /\ last.outcome = "accept"

-----------------------------------------------------------------------------
(* C5 *)

\* C5: a walked email field whose trimmed value is non-empty and is no email
\* address fails with the email message, also when it is required, and is not
\* left marked valid.
C5_BadEmailFails ==
  (Walked(1) /\ dom[1].type = "email" /\ ~Blank(dom[1].value)
     /\ ~MatchEmail(trim(dom[1].value))) =>
    /\ last.failed = 1
    /\ last.msg = formAttrs["email"]
    /\ "is-valid" \notin dom[1].classes
    /\ params.validClass \notin dom[1].classes

-----------------------------------------------------------------------------
(* C6 *)

\* C6: a walked required checkbox that is unchecked fails with the required
\* message, whatever its value attribute; one that is checked is not failed
\* by the required rule.
C6_RequiredCheckbox ==
  (Walked(1) /\ dom[1].type = "checkbox" /\ dom[1].required) =>
    /\ ~dom[1].checked =>
         (last.failed = 1 /\ last.msg = formAttrs["required"]
            /\ params.invalidClass \in dom[1].classes)
    /\ dom[1].checked => ~(last.failed = 1 /\ last.msg = formAttrs["required"])

\* A required checkbox without a value, unchecked, was rejected.
C6_Witness ==
  /\ Walked(1)
  /\ dom[1].type = "checkbox"
  /\ dom[1].required
  /\ ~dom[1].checked
  /\ dom[1].value = VEmpty
  /\ last.outcome = "reject"
  /\ dom[1].block.msg = "Required"

-----------------------------------------------------------------------------
(* C7 *)

\* C7: a walked required field that is no checkbox and whose value is blank
\* fails with the required message, also when its type is email or tel and
\* a custom rule with a message is active on it.
C7_BlankRequiredFails ==
  (Walked(1) /\ dom[1].type # "checkbox" /\ dom[1].required
     /\ Blank(dom[1].value)) =>
    /\ last.failed = 1
    /\ last.msg = formAttrs["required"]
    /\ last.msg \notin {formAttrs[n] : n \in {"email", "tel", "foo", "bar"}}

\* A required email field holding only a space, with custom rule foo active
\* on it and its message defined, was rejected.
C7_Witness ==
  /\ Walked(1)
  /\ dom[1].type = "email"
  /\ dom[1].required
  /\ dom[1].value = VSpace
  /\ dom[1].attrs["foo"] # Null
  /\ HasRule("foo")
  /\ ~Falsy(formAttrs["foo"])
  /\ last.outcome = "reject"

-----------------------------------------------------------------------------
(* C8 *)

\* C8: when a registered custom rule has no message (or an empty one) and a
\* field carries its attribute, validate() throws a configuration error, and
\* nothing of that field was changed: its classes and error block are what
\* they were and no event was dispatched on it.
C8_MissingMessageThrowsFirst ==
  [][IsCall /\ ActiveRuleWithoutMessage =>
       /\ last'.outcome = "configError"
       /\ last'.submits = 0
       /\ \A i \in 1..Len(dom) :
            (\E n \in RuleNames :
               HasRule(n) /\ Falsy(formAttrs[n]) /\ dom[i].attrs[n] # Null) =>
              /\ dom'[i] = dom[i]
              /\ i \notin last'.events
              /\ i \notin last'.touched]_vars

\* The call threw while the field carrying the attribute is the second one,
\* behind a field that has a failing rule of its own.
C8_Witness ==
  /\ Called
  /\ last.outcome = "configError"
  /\ Len(dom) = 2
  /\ dom[1].attrs["foo"] = Null
  /\ Failing(dom[1], dom) # {}
  /\ dom[2].attrs["foo"] # Null
  /\ HasRule("foo")
  /\ Falsy(formAttrs["foo"])

-----------------------------------------------------------------------------
(* C9 *)

\* C9: when the only registered rules without a message are rules whose
\* attribute no field carries, validate() throws no configuration error.
C9_InactiveRuleNeedsNoMessage ==
  (Called /\ ~ActiveRuleWithoutMessage) => last.outcome # "configError"

-----------------------------------------------------------------------------
(* C10 *)

\* C10: setFieldCheck throws, and registers nothing, whenever the name is
\* not a non-empty string.
C10_BadNameThrows ==
  (last.op = "setFieldCheck"
     /\ (last.arg.name.type # "string" \/ last.arg.name.str = "")) =>
    /\ last.outcome = "throw"
    /\ ~HasRule("")

-----------------------------------------------------------------------------
(* C11 *)

\* The step is a setFieldCheck call whose checker is neither a RegExp nor a
\* function.
BadCheckerStep ==
  /\ last'.op = "setFieldCheck"
  /\ last'.arg.check.kind \notin {"regexp", "function"}

\* C11: setFieldCheck with a checker that is neither a RegExp nor a function
\* throws at registration and leaves the registry as it was, so that the
\* registry never holds a checker validate() could not call.
C11_BadCheckerThrows ==
  [][BadCheckerStep =>
       /\ last'.outcome = "throw"
       /\ customChecks' = customChecks
       /\ \A k \in 1..Len(customChecks') :
            customChecks'[k].check.kind \in {"regexp", "function"}]_vars

\* setFieldCheck('foo', null) threw while rule foo was registered with the
\* regular expression, which is still in force.
C11_Witness ==
  /\ last.op = "setFieldCheck"
  /\ last.outcome = "throw"
  /\ last.arg.name = StringName("foo")
  /\ last.arg.check = Other("null")
  /\ customChecks = <<[name |-> "foo", check |-> AlnumCheck]>>

-----------------------------------------------------------------------------
(* C12 *)

\* The checker registered as check rejects the value of field f: the regular
\* expression does not match the trimmed value, or the predicate called with
\* the value, the field and the tokens of the attribute returns false.
Rejects(check, f, n) ==
  IF check.kind = "regexp"
  THEN ~test(check.body, trim(f.value))
  ELSE ~callPredicate(check.body, f.value, f, split(f.attrs[n]))

\* Field f carries the attribute of rule n, is not blank and is rejected.
BreaksRule(check, f, n) ==
  /\ f.attrs[n] # Null
  /\ ~Blank(f.value)
  /\ Rejects(check, f, n)

\* C12: when the field is walked and no rule before custom rule number k
\* fails it, the field fails with the message of that rule iff it carries the
\* rule's attribute, its trimmed value is non-empty and the checker rejects
\* the value; without the attribute the rule never fails it.
C12_CustomVerdict ==
  \A k \in 1..Len(customChecks) :
    (Walked(1) /\ \A r \in Failing(dom[1], dom) : r >= 5 + k) =>
      ((last.failed = 1 /\ last.msg = formAttrs[customChecks[k].name])
         <=> BreaksRule(customChecks[k].check, dom[1], customChecks[k].name))

-----------------------------------------------------------------------------
(* C13 *)

\* C13: a validate() call, whether it accepts, rejects or throws, leaves the
\* registry of custom checks and the messages of the form as they were.
C13_ValidateKeepsRegistryAndMessages ==
  [][IsCall => (customChecks' = customChecks /\ messages' = messages)]_vars

-----------------------------------------------------------------------------
(* C14 *)

\* A check result that says the value is empty reports no error.
EmptyHasNoError(result) == result.isEmpty => ~result.hasError

\* C14: every check result a validate() call computed for the field (by
\* empty, email and tel, and by every custom checker invoked for the field)
\* reports no error when it says the value is empty.
C14_EmptyResultHasNoError ==
  Walked(1) =>
    /\ EmptyHasNoError(empty(dom[1].value))
    /\ EmptyHasNoError(email(dom[1].value))
    /\ EmptyHasNoError(tel(dom[1].value))
    /\ \A k \in 1..Len(customChecks) :
         <<1, customChecks[k].name>> \in last.invoked =>
           EmptyHasNoError(callCheck(customChecks[k].check, dom[1].value, dom[1],
                                     split(dom[1].attrs[customChecks[k].name])))

-----------------------------------------------------------------------------
(* C15 *)

\* C15: in every generation a validate() call evaluates the fields that are
\* in the form when it is made, in DOM order, and no field that was removed
\* from it: a call that accepts has evaluated every field of the form, and
\* the decision is that of the rules on those fields.
C15_NoFieldCaching ==
  [][IsCall =>
       /\ last'.gone = 0
       /\ last'.seen = 1..Cardinality(last'.seen)
       /\ last'.outcome = "accept" => last'.seen = 1..Len(dom)
       /\ last'.outcome # "configError" =>
            (last'.outcome = "accept" <=> FirstFailing(dom) = 0)]_vars

-----------------------------------------------------------------------------
(* C16 *)

\* The classes that mark a field valid or invalid.
ValidMarks == {params.validClass, "is-valid"}

InvalidMarks == {params.invalidClass, "is-invalid"}

\* C16: after a validate() call that the field passes, the field is marked
\* valid only if its value is not blank, and an optional field whose value is
\* blank is marked neither valid nor invalid.
C16_ValidOnlyWhenNotBlank ==
  (Walked(1) /\ last.outcome = "accept") =>
    /\ dom[1].classes \cap ValidMarks # {} => ~Blank(dom[1].value)
    /\ (~dom[1].required /\ Blank(dom[1].value)) =>
         dom[1].classes \cap (ValidMarks \cup InvalidMarks) = {}

-----------------------------------------------------------------------------
(* C17 *)

\* The step is a setFieldCheck call that did not throw, for a name the
\* registry already holds.
OverwriteStep ==
  /\ last'.op = "setFieldCheck"
  /\ last'.outcome = "ok"
  /\ HasRule(last'.arg.name.str)

\* The registry after the step holds the names it held, in the same order,
\* with the checker of the call under the name of the call and the other
\* checkers as they were.
Overwritten ==
  /\ Len(customChecks') = Len(customChecks)
  /\ \A k \in 1..Len(customChecks) :
       /\ customChecks'[k].name = customChecks[k].name
       /\ customChecks'[k].check =
            IF customChecks[k].name = last'.arg.name.str
            THEN last'.arg.check
            ELSE customChecks[k].check
  /\ \A k, q \in 1..Len(customChecks') :
       customChecks'[k].name = customChecks'[q].name => k = q

\* The validate() call of the step fails the field by a custom rule only if
\* the checker the registry holds for that rule rejects the field.
FailsByCurrentChecker ==
  \A k \in 1..Len(customChecks) :
    (last'.failed = 1 /\ last'.msg = formAttrs[customChecks[k].name]) =>
      BreaksRule(customChecks[k].check, dom[1], customChecks[k].name)

\* C17: registering a name a second time throws nothing, leaves one entry for
\* the name at the place it had, holding the second checker; every later
\* validate() call judges the rule by the checker the registry holds.
C17_LastRegistrationWins ==
  [][/\ OverwriteStep => Overwritten
     /\ IsCall => FailsByCurrentChecker]_vars

\* Rule foo was registered again, after rule bar, with the regular
\* expression: it is still the first of the two.
C17_Witness ==
  /\ last.op = "setFieldCheck"
  /\ last.outcome = "ok"
  /\ last.arg.name = StringName("foo")
  /\ last.arg.check = AlnumCheck
  /\ customChecks = <<[name |-> "foo", check |-> AlnumCheck],
                      [name |-> "bar", check |-> RejectCheck]>>

-----------------------------------------------------------------------------
(* C18 *)

\* The error block b is shown, or will be once its timer has fired.
Shown(b) == b.exists /\ (~b.hidden \/ b.timer)

\* The error block b is visible.
Visible(b) == b.exists /\ ~b.hidden

\* The step gives field i a failure report with message m.
FreshReport(i, m) ==
  /\ params.invalidClass \in dom'[i].classes
  /\ Shown(dom'[i].block)
  /\ dom'[i].block.msg = m
  /\ last'.msg = m

\* The step gives field j no failure report it did not have.
NoFreshReport(j) ==
  /\ params.invalidClass \in dom'[j].classes => params.invalidClass \in dom[j].classes
  /\ Visible(dom'[j].block) => Visible(dom[j].block)
  /\ dom'[j].block.timer => dom[j].block.timer
  /\ dom'[j].block.msg = dom[j].block.msg

\* The step reports the failure of field i, and of field i only.
ReportsOnly(i) ==
  /\ i # 0
  /\ last'.failed = i
  /\ last'.events = {i}
  /\ FreshReport(i, Candidates(dom[i], dom)[Least(Failing(dom[i], dom))].msg)
  /\ \A j \in 1..Len(dom) : j # i => NoFreshReport(j)

\* C18: a validate() call that rejects dispatches the error event once, on
\* the first failing field in DOM order, and gives the invalid class and an
\* error block with the message of the failing rule to that field only; a
\* call that accepts dispatches no event, gives no field a failure report
\* and leaves no error block visible.
C18_SingleFailureReport ==
  [][IsCall =>
       /\ last'.outcome = "reject" => ReportsOnly(FirstFailing(dom))
       /\ last'.outcome = "accept" =>
            /\ last'.events = {}
            /\ \A j \in 1..Len(dom) : NoFreshReport(j) /\ ~Visible(dom'[j].block)]_vars

\* A call rejected at the second field, whose first field passed and was
\* marked valid.
C18_Witness ==
  /\ Called
  /\ last.outcome = "reject"
  /\ Len(dom) = 2
  /\ last.failed = 2
  /\ last.events = {2}
  /\ "is-valid" \in dom[1].classes
  /\ params.invalidClass \in dom[2].classes
  /\ dom[2].block.exists

-----------------------------------------------------------------------------
(* C19 *)

\* Every registered custom rule has a message on the form.
EveryRuleHasMessage ==
  \A k \in 1..Len(customChecks) : ~Falsy(formAttrs[customChecks[k].name])

\* C19: a validate() call throws nothing but configuration errors, and it
\* returns normally when every registered custom rule has a message, wherever
\* the fields are placed in the DOM.
C19_OnlyConfigErrorsThrown ==
  Called =>
    /\ last.outcome \in {"accept", "reject", "configError"}
    /\ EveryRuleHasMessage => last.outcome \in {"accept", "reject"}

-----------------------------------------------------------------------------
(* C20 *)

\* The step did what the validate() call r of the closure version does.
SameAsClosure(r) ==
  /\ last'.outcome = r.result.outcome
  /\ last'.submits = r.submits
  /\ last'.failed = r.result.failed
  /\ last'.msg = r.result.msg
  /\ last'.events = r.result.events
  /\ last'.eventType = IF r.result.events = {} THEN NullMsg ELSE EventType("v0.1.0")
  /\ dom' = r.result.dom

\* C20: a validate() call of any generation decides, reports, marks the
\* fields, dispatches and throws as the call of the closure version (v0.1.0)
\* does on the same form with the same registry.
C20_GenerationsAgree ==
  [][IsCall =>
       SameAsClosure(validate(dom, customChecks, formAttrs, messages, params))]_vars

-----------------------------------------------------------------------------
(* C21 *)

\* No zero-delay timer of showError is pending.
NoTimerPending == \A i \in 1..Len(dom) : ~dom[i].block.timer

\* C21: once no timer is pending, the error block of a form group is visible
\* only if the most recent evaluation of the group's field failed.
C21_VisibleOnlyAfterFailure ==
  NoTimerPending =>
    \A i \in 1..Len(dom) : Visible(dom[i].block) => dom[i].verdict = "fail"

-----------------------------------------------------------------------------
(* C22 *)

\* C22: a field whose most recent evaluation passed does not carry the
\* configured invalidClass, and a field whose most recent evaluation failed
\* does not carry the configured validClass.
C22_ConfiguredClassesConsistent ==
  \A i \in 1..Len(dom) :
    /\ dom[i].verdict = "pass" => params.invalidClass \notin dom[i].classes
    /\ dom[i].verdict = "fail" => params.validClass \notin dom[i].classes

=============================================================================
